---------------------------- MODULE Spec2Model ----------------------------
(***************************************************************************)
(* Reconciliation engine of the node-disk-manager block-device controller  *)
(* (pkg/controller/blockdevice/controller.go): the change handler          *)
(* OnBlockDeviceChange with its format, mount, provision / unprovision and *)
(* status-refresh stages, the format semaphore, the CacheDiskTags store    *)
(* and the delete handler, for two block-device resources of one node.     *)
(***************************************************************************)
EXTENDS Integers, Sequences, FiniteSets, TLC

VARIABLES
    bd,        \* the stored BlockDevice resources, by name
    os,        \* what the kernel / filesystem tools report for each device
    node,      \* the orchestrator (longhorn) node of this agent
    diskTags,  \* CacheDiskTags.diskTags
    initialized, \* CacheDiskTags.initialized
    sem,       \* number of permits held in semaphore.ch
    run,       \* per device: the handler in flight (its position and locals)
    queue,     \* device keys waiting in the work queue
    budget,    \* environment events (user edits, faults, orchestrator) left
    last,      \* what the most recently finished handler invocation did
    awaitUser, \* devices whose corruption was recorded and for which the user
               \* has not set ForceFormatted or Repaired since
    formatted  \* devices on which mkfs has succeeded and whose stored
               \* Corrupted has not become true since

vars == <<bd, os, node, diskTags, initialized, sem, run, queue, budget, last,
          awaitUser, formatted>>

-----------------------------------------------------------------------------
(* Bounds and program constants *)

\* number of environment events (user edits, injected faults, orchestrator
\* changes) one behaviour may contain
MaxEvents == 2

\* opt.MaxConcurrentOps: capacity of the format semaphore
MaxConcurrentOps == 1

Names == {"d1", "d2"}

Self == "n1"
OtherNode == "n2"

\* LastFormattedAt: nil, or the time of the last format
NilTime == "nil"
Now == "now"

UNKNOWN == "unknown"
DiskRemoveTag == "remove"
Ext4 == "ext4"

\* device files and default mount points, by device name
DevPathOf(name) == IF name = "d1" THEN "/dev/sda" ELSE "/dev/sda1"
ExtraDisksDir(name) ==
    IF name = "d1" THEN "/var/lib/harvester/extra-disks/d1"
    ELSE "/var/lib/harvester/extra-disks/d2"
LegacyMount == "/mnt/legacy"
ForeignMount == "/mnt/foreign"

\* ParentDeviceLabel of each resource ("" : none)
ParentOf(name) == IF name = "d2" THEN "d1" ELSE ""

\* devices matched by the scanner's auto-provision filters
AutoProvisionMatch == {"d1"}

-----------------------------------------------------------------------------
(* Go slices: nil is kept apart from the empty slice (reflect.DeepEqual and *)
(* the `disk.Tags != nil` test tell them apart).                            *)

NilSlice == [isNil |-> TRUE, e |-> <<>>]
Slice(s) == [isNil |-> FALSE, e |-> s]
Elems(t) == {t.e[i] : i \in 1..Len(t.e)}
Contains(t, x) == x \in Elems(t)

\* the log of the external calls of one handler invocation, in order
Range(s) == {s[i] : i \in 1..Len(s)}
Count(x, s) == Cardinality({i \in 1..Len(s) : s[i] = x})
\* append(a, b...): nil only when both are empty and a is nil
AppendSlice(a, b) ==
    IF a.isNil /\ Len(b.e) = 0 THEN NilSlice ELSE Slice(a.e \o b.e)

RECURSIVE DedupeSeq(_, _)
DedupeSeq(s, seen) ==
    IF s = <<>> THEN <<>>
    ELSE IF Head(s) \in seen THEN DedupeSeq(Tail(s), seen)
         ELSE <<Head(s)>> \o DedupeSeq(Tail(s), seen \cup {Head(s)})

\* gocommon.SliceDedupe: first occurrences, in order
SliceDedupe(t) == Slice(DedupeSeq(t.e, {}))

\* gocommon.SliceContentCmp: same content, any order
SliceContentCmp(a, b) == Elems(a) = Elems(b)

-----------------------------------------------------------------------------
(* Conditions (bool, error, message) *)

NoCond == [status |-> "", err |-> "", msg |-> ""]
SetError(c, e) ==
    IF e = "" THEN [c EXCEPT !.status = "True", !.err = ""]
    ELSE [c EXCEPT !.status = "False", !.err = e]
SetStatusBool(c, b) == [c EXCEPT !.status = IF b THEN "True" ELSE "False"]
Message(c, m) == [c EXCEPT !.msg = m]
IsTrue(c) == c.status = "True"

-----------------------------------------------------------------------------
(* NeedMountUpdateOP: a bit set *)

NeedMountUpdateNoOp == 1
NeedMountUpdateMount == 2
NeedMountUpdateUnmount == 4

\* NeedMountUpdateOP.Has: f & flag != 0 (flag a single bit)
Has(f, flag) == (f \div flag) % 2 = 1

-----------------------------------------------------------------------------
(* Maps with a growing and shrinking key set *)

EmptyMap == [x \in {} |-> 0]
\* an assignment that drops the other keys
Put_dropsOthers(m, k, v) == [x \in {k} |-> v]
\* m[k] = v
Put(m, k, v) == [x \in (DOMAIN m) \cup {k} |-> IF x = k THEN v ELSE m[x]]
Del(m, k) == [x \in (DOMAIN m) \ {k} |-> m[x]]

\* CacheDiskTags.GetDiskTags: the zero value (nil) for a missing key
GetDiskTags(tags, dev) == IF dev \in DOMAIN tags THEN tags[dev] ELSE NilSlice
\* CacheDiskTags.DevExist
DevExist(tags, dev) == dev \in DOMAIN tags
\* CacheDiskTags.UpdateDiskTags
UpdateDiskTags(tags, dev, t) == Put(tags, dev, t)
\* CacheDiskTags.DeleteDiskTags
DeleteDiskTags(tags, dev) == Del(tags, dev)

-----------------------------------------------------------------------------
(* Small helpers of the controller *)

valueExists(value) == value /= "" /\ value /= UNKNOWN

\* a mount point that does not carry the name of the device
extraDiskMountPoint_noName(dev) ==
    IF dev.SpecMountPoint /= "" THEN dev.SpecMountPoint
    ELSE "/var/lib/harvester/extra-disks"

extraDiskMountPoint(dev) ==
    IF dev.SpecMountPoint /= "" THEN dev.SpecMountPoint
    ELSE ExtraDisksDir(dev.Name)

\* a planner that knows the default mount point only, not the deprecated
\* Spec.FileSystem.MountPoint override
needUpdateMountPoint_ignoresOverride(dev, fs) ==
    IF fs.isNil THEN NeedMountUpdateNoOp
    ELSE IF dev.Provisioned THEN
        IF fs.MountPoint = "" THEN NeedMountUpdateMount
        ELSE IF fs.MountPoint = ExtraDisksDir(dev.Name) THEN NeedMountUpdateNoOp
        ELSE NeedMountUpdateUnmount + NeedMountUpdateMount
    ELSE IF fs.MountPoint /= "" THEN NeedMountUpdateUnmount
    ELSE NeedMountUpdateNoOp

\* fs is the observed filesystem: [isNil, MountPoint, Type, IsReadOnly]
needUpdateMountPoint(dev, fs) ==
    IF fs.isNil THEN NeedMountUpdateNoOp
    ELSE IF dev.Provisioned THEN
        IF fs.MountPoint = "" THEN NeedMountUpdateMount
        ELSE IF fs.MountPoint = extraDiskMountPoint(dev) THEN NeedMountUpdateNoOp
        ELSE NeedMountUpdateUnmount + NeedMountUpdateMount
    ELSE IF fs.MountPoint /= "" THEN NeedMountUpdateUnmount
    ELSE NeedMountUpdateNoOp

\* BlockInfo.GetFileSystemInfoByDevPath on the device's current OS state
GetFileSystemInfoByDevPath(o) ==
    [isNil |-> FALSE, MountPoint |-> o.mnt, Type |-> o.fstype, IsReadOnly |-> FALSE]

NilFileSystem == [isNil |-> TRUE, MountPoint |-> "", Type |-> "", IsReadOnly |-> FALSE]

\* utils.IsSupportedFileSystem
IsSupportedFileSystem(t) == t = Ext4

\* The symlink tree under /dev/disk as the device's OS state implies it.
\* "resolve" \in F is an I/O error other than "not found" on the lookup made.
resolvePersistentDevPath(dev, o, F) ==
    LET ok == [path |-> DevPathOf(dev.Name), err |-> ""]
        io == [path |-> "", err |-> "resolve"]
        notExist == [path |-> "", err |-> "notexist"]
    IN  IF dev.DeviceType = "disk" THEN
            IF valueExists(dev.WWN) THEN
                IF "resolve" \in F THEN io
                ELSE IF o.wwn = dev.WWN THEN ok ELSE notExist
            ELSE IF valueExists(dev.UUID) /\ "resolve" \in F THEN io
            ELSE IF valueExists(dev.UUID) /\ o.fsuuid = dev.UUID THEN ok
            ELSE IF valueExists(dev.PtUUID) THEN
                IF "resolve" \in F THEN io
                ELSE IF o.ptuuid = dev.PtUUID THEN ok
                ELSE IF o.fsuuid = dev.PtUUID THEN ok
                ELSE notExist
            ELSE [path |-> "", err |-> "noid"]
        ELSE IF dev.DeviceType = "part" THEN
            IF dev.PartUUID = "" THEN [path |-> "", err |-> "noid"]
            ELSE IF "resolve" \in F THEN io
            ELSE IF o.partuuid = dev.PartUUID THEN ok ELSE notExist
        ELSE [path |-> "", err |-> ""]

-----------------------------------------------------------------------------
(* updateDeviceFileSystem: [dev, err, calls] *)

updateDeviceFileSystem(dev, o, F) ==
    LET filesystem == IF "fsnil" \in F THEN NilFileSystem
                      ELSE GetFileSystemInfoByDevPath(o)
    IN  IF dev.Corrupted THEN [dev |-> dev, err |-> "", calls |-> <<>>]
        ELSE IF filesystem.isNil
             THEN [dev |-> dev, err |-> "fsnil", calls |-> <<"refresh">>]
        ELSE IF filesystem.MountPoint /= "" /\ filesystem.Type /= ""
                /\ ~IsSupportedFileSystem(filesystem.Type)
             THEN [dev |-> dev, err |-> "unsupported", calls |-> <<"refresh">>]
        ELSE [dev |-> [dev EXCEPT !.MountPoint = filesystem.MountPoint,
                                  !.Type = filesystem.Type,
                                  !.IsReadOnly = filesystem.IsReadOnly],
              err |-> "", calls |-> <<"refresh">>]

-----------------------------------------------------------------------------
(* Outcomes of the external calls.  F is the set of calls that fail in the *)
(* handler step at hand: "resolve", "umount", "mkfs", "mount" (a mount     *)
(* error), "corrupt" (a mount error that utils.IsFSCorrupted recognises),  *)
(* "fsnil" (BlockInfo has no filesystem info on the re-query), "nodeget",  *)
(* "nodeupdate", "bdupdate", "bddelete".                                   *)

Faults == {"resolve", "umount", "mkfs", "mount", "corrupt", "fsnil",
           "nodeget", "nodeupdate", "bdupdate", "bddelete"}

\* the external call a fault is an outcome of
FaultCall(f) ==
    IF f = "corrupt" THEN "mount" ELSE IF f = "fsnil" THEN "refresh" ELSE f

\* utils.UmountDisk succeeded
Unmounted(o) == [o EXCEPT !.mnt = ""]
\* utils.MountDisk succeeded
Mounted(o, mountPoint) == [o EXCEPT !.mnt = mountPoint]
\* utils.MakeExt4DiskFormatting succeeded: an ext4 filesystem with the UUID
\* asked for (mkfs draws one when none is given) replaces what the device held
Formatted(o, uuid) ==
    [o EXCEPT !.fstype = Ext4,
              !.fsuuid = IF uuid = "" THEN "rnd" ELSE uuid,
              !.ptuuid = "",
              !.parts = FALSE]

-----------------------------------------------------------------------------
(* updateDeviceMount: [dev, os, err, calls] *)

\* a mount stage without the partition check
mountRefused_never(dev) == FALSE

\* the mount stage refuses a device that carries partitions
mountRefused(dev) == dev.Partitioned

updateDeviceMount(dev, devPath, filesystem, needMountUpdate, o, F) ==
    LET doUmount == Has(needMountUpdate, NeedMountUpdateUnmount)
        doMount == Has(needMountUpdate, NeedMountUpdateMount)
        dev1 == IF doUmount
                THEN [dev EXCEPT !.DeviceMounted =
                        SetStatusBool(SetError(dev.DeviceMounted, ""), FALSE)]
                ELSE dev
        o1 == IF doUmount THEN Unmounted(o) ELSE o
        c1 == IF doUmount THEN <<"umount">> ELSE <<>>
        dev2 == [dev1 EXCEPT !.DeviceMounted =
                        SetStatusBool(SetError(dev1.DeviceMounted, ""), TRUE)]
        o2 == Mounted(o1, extraDiskMountPoint(dev1))
        dev3 == IF doMount THEN dev2 ELSE dev1
        o3 == IF doMount THEN o2 ELSE o1
        c3 == IF doMount THEN c1 \o <<"mount">> ELSE c1
        upd == updateDeviceFileSystem([dev3 EXCEPT !.Corrupted = FALSE], o3, F)
    IN  IF mountRefused(dev)
        THEN [dev |-> dev, os |-> o, err |-> "partitioned", calls |-> <<>>]
        ELSE IF doUmount /\ "umount" \in F
        THEN [dev |-> dev, os |-> o, err |-> "umount", calls |-> <<"umount">>]
        ELSE IF doMount /\ "corrupt" \in F
        THEN [dev |-> [dev1 EXCEPT !.Corrupted = TRUE, !.Repaired = FALSE],
              os |-> o1, err |-> "corrupt", calls |-> c3]
        ELSE IF doMount /\ "mount" \in F
        THEN [dev |-> dev1, os |-> o1, err |-> "mount", calls |-> c3]
        ELSE [dev |-> upd.dev, os |-> o3, err |-> upd.err,
              calls |-> c3 \o upd.calls]

-----------------------------------------------------------------------------
(* forceFormat *)

\* the UUID forceFormat hands to mkfs
reuseUUID(dev) ==
    IF valueExists(dev.WWN) THEN ""
    ELSE IF valueExists(dev.UUID) THEN dev.UUID
    ELSE IF valueExists(dev.PtUUID) THEN dev.PtUUID
    ELSE ""

\* a forceFormat without the UUID write-back
writeBackUUID_never(dev, uuid) == dev

\* the UUID write-back after mkfs: only a UUID that was reused is stored
writeBackUUID(dev, uuid) ==
    IF uuid /= "" THEN [dev EXCEPT !.UUID = uuid] ELSE dev

\* the part of forceFormat after the umount: mkfs, UUID write-back,
\* filesystem refresh, conditions.  [dev, os, err, calls, uuid]
formatTail(dev, o, F) ==
    LET uuid == reuseUUID(dev)
        o1 == Formatted(o, uuid)
        dev1 == writeBackUUID(dev, uuid)
        upd == updateDeviceFileSystem(dev1, o1, F)
        dev2 == [upd.dev EXCEPT
                    !.DeviceFormatting =
                        Message(SetStatusBool(SetError(upd.dev.DeviceFormatting, ""),
                                              FALSE),
                                "Done device ext4 filesystem formatting"),
                    !.LastFormattedAt = Now,
                    !.Partitioned = FALSE,
                    !.Corrupted = FALSE]
    IN  IF "mkfs" \in F
        THEN [dev |-> dev, os |-> o, err |-> "mkfs", calls |-> <<"mkfs">>,
              uuid |-> uuid]
        ELSE IF upd.err /= ""
        THEN [dev |-> dev1, os |-> o1, err |-> upd.err,
              calls |-> <<"mkfs">> \o upd.calls, uuid |-> uuid]
        ELSE [dev |-> dev2, os |-> o1, err |-> "",
              calls |-> <<"mkfs">> \o upd.calls, uuid |-> uuid]

-----------------------------------------------------------------------------
(* provisionDeviceToNode: [dev, node, tags, err, calls] *)

DiskSpec(path, tags) ==
    [Path |-> path, AllowScheduling |-> TRUE, EvictionRequested |-> FALSE,
     StorageReserved |-> 0, Tags |-> tags]

\* a merge that keeps none of the tags found on the node
respectTags_none(diskTagsOnNode, tags, name) == Slice(<<>>)

\* tags of the node entry that CacheDiskTags does not hold for the device
respectTags(diskTagsOnNode, tags, name) ==
    IF DevExist(tags, name)
    THEN Slice(SelectSeq(diskTagsOnNode.e,
                         LAMBDA tag : ~Contains(GetDiskTags(tags, name), tag)))
    ELSE diskTagsOnNode

\* the tags written for a node entry that already carries (non-nil) tags
mergeTags(diskTagsOnNode, tags, dev) ==
    SliceDedupe(AppendSlice(respectTags(diskTagsOnNode, tags, dev.Name), dev.Tags))

\* the DiskSpec that provisionDeviceToNode builds for the device: the tags
\* of the resource, or the merged tags when the node already holds an entry
\* with (non-nil) tags
newDiskSpec(dev, n, tags) ==
    LET found == dev.Name \in DOMAIN n.disks
        merge == found /\ ~n.disks[dev.Name].Tags.isNil
    IN  DiskSpec(extraDiskMountPoint(dev),
                 IF merge THEN mergeTags(n.disks[dev.Name].Tags, tags, dev)
                 ELSE dev.Tags)

\* a success mark that leaves the phase as it was
markDiskAdded_keepsPhase(dev) ==
    [dev EXCEPT !.DiskAddedToNode =
        Message(SetStatusBool(SetError(dev.DiskAddedToNode, ""), TRUE),
                "Added disk to longhorn node")]

\* the success mark of provisionDeviceToNode: the phase and the condition
markDiskAdded(dev) ==
    [dev EXCEPT
        !.ProvisionPhase = "Provisioned",
        !.DiskAddedToNode =
            Message(SetStatusBool(SetError(dev.DiskAddedToNode, ""), TRUE),
                    "Added disk to longhorn node")]

provisionDeviceToNode(dev, n, tags, F) ==
    LET found == dev.Name \in DOMAIN n.disks
        disk == n.disks[dev.Name]
        merge == found /\ ~disk.Tags.isNil
        diskSpec == newDiskSpec(dev, n, tags)
        updated == merge /\ disk = diskSpec
        write == ~updated
        n1 == IF write THEN [n EXCEPT !.disks = Put(n.disks, dev.Name, diskSpec)]
              ELSE n
        dev1 == IF ~IsTrue(dev.DiskAddedToNode) THEN markDiskAdded(dev) ELSE dev
        c == IF write THEN <<"nodeget", "nodeupdate">> ELSE <<"nodeget">>
    IN  IF ~n.exists \/ "nodeget" \in F
        THEN [dev |-> dev, node |-> n, tags |-> tags, err |-> "nodeget",
              calls |-> <<"nodeget">>]
        ELSE IF write /\ "nodeupdate" \in F
        THEN [dev |-> dev, node |-> n, tags |-> tags, err |-> "nodeupdate",
              calls |-> c]
        ELSE [dev |-> dev1, node |-> n1,
              tags |-> UpdateDiskTags(tags, dev.Name, dev.Tags),
              err |-> "", calls |-> c \o <<"tagset">>]

-----------------------------------------------------------------------------
(* unprovisionDeviceFromNode: [dev, node, err, calls] *)

updateProvisionPhaseUnprovisioned(dev) ==
    [dev EXCEPT !.ProvisionPhase = "Unprovisioned",
                !.DiskAddedToNode =
                    Message(SetStatusBool(SetError(dev.DiskAddedToNode, ""), FALSE),
                            "Disk not in longhorn node")]

\* a check that takes a missing status record for an empty one
drained_missingIsEmpty(n, name) ==
    name \notin DOMAIN n.status \/ n.status[name] = 0

\* status, ok := node.Status.DiskStatus[name]; ok && len(ScheduledReplica) == 0
drained(n, name) == name \in DOMAIN n.status /\ n.status[name] = 0

unprovisionDeviceFromNode(dev, n, F) ==
    LET name == dev.Name
        diskToRemove == n.disks[name]
        isUnprovisioning == Contains(diskToRemove.Tags, DiskRemoveTag)
        evict == [diskToRemove EXCEPT
                    !.AllowScheduling = FALSE,
                    !.EvictionRequested = TRUE,
                    !.Tags = Slice(diskToRemove.Tags.e \o <<DiskRemoveTag>>)]
        failed == [dev |-> dev, node |-> n, err |-> "nodeupdate",
                   calls |-> <<"nodeget", "nodeupdate">>]
    IN  IF "nodeget" \in F
        THEN [dev |-> dev, node |-> n, err |-> "nodeget", calls |-> <<"nodeget">>]
        ELSE IF ~n.exists
        THEN [dev |-> dev, node |-> n, err |-> "", calls |-> <<"nodeget">>]
        ELSE IF name \notin DOMAIN n.disks
        THEN [dev |-> updateProvisionPhaseUnprovisioned(dev), node |-> n,
              err |-> "", calls |-> <<"nodeget">>]
        ELSE IF isUnprovisioning /\ drained(n, name)
        THEN IF "nodeupdate" \in F THEN failed
             ELSE [dev |-> updateProvisionPhaseUnprovisioned(dev),
                   node |-> [n EXCEPT !.disks = Del(n.disks, name)],
                   err |-> "", calls |-> <<"nodeget", "nodeupdate">>]
        ELSE IF isUnprovisioning
        THEN [dev |-> dev, node |-> n, err |-> "",
              calls |-> <<"nodeget", "enqueue">>]
        ELSE IF "nodeupdate" \in F THEN failed
        ELSE [dev |-> [dev EXCEPT
                        !.ProvisionPhase = "Unprovisioning",
                        !.DiskAddedToNode =
                            Message(SetStatusBool(SetError(dev.DiskAddedToNode, ""),
                                                  FALSE),
                                    "Stop provisioning device to longhorn node")],
              node |-> [n EXCEPT !.disks = Put(n.disks, name, evict)],
              err |-> "", calls |-> <<"nodeget", "nodeupdate">>]

-----------------------------------------------------------------------------
(* updateDeviceStatus: [dev, err, calls] *)

\* GetDiskBlockDevice / GetPartitionBlockDevice: the DeviceStatus built from
\* what BlockInfo reports; it carries no format history and no corruption mark
freshStatus(dev, o) ==
    [dev EXCEPT !.WWN = o.wwn, !.UUID = o.fsuuid, !.PtUUID = o.ptuuid,
                !.PartUUID = o.partuuid,
                !.MountPoint = o.mnt, !.Type = o.fstype, !.IsReadOnly = FALSE,
                !.Corrupted = FALSE, !.LastFormattedAt = NilTime,
                !.Partitioned = o.parts, !.DevPath = ""]

\* Scanner.NeedsAutoProvision
NeedsAutoProvision(dev, autoProvisioned) ==
    autoProvisioned /\ dev.LastFormattedAt = NilTime

\* a status refresh that takes the timestamp of the fresh status as it is
keepLastFormatted_fresh(oldLastFormatted, newLastFormatted) == newLastFormatted

\* the LastFormattedAt of the status that replaces oldStatus
keepLastFormatted(oldLastFormatted, newLastFormatted) ==
    IF oldLastFormatted /= NilTime /\ newLastFormatted = NilTime
    THEN oldLastFormatted
    ELSE newLastFormatted

updateDeviceStatus(dev, devPath, o) ==
    LET new == freshStatus(dev, o)
        needAutoProvision ==
            dev.DeviceType = "disk"
            /\ NeedsAutoProvision(dev, dev.Name \in AutoProvisionMatch)
        new1 == [new EXCEPT
                    !.LastFormattedAt =
                        keepLastFormatted(dev.LastFormattedAt, new.LastFormattedAt),
                    !.DevPath = devPath]
        dev1 == IF needAutoProvision
                THEN [new1 EXCEPT !.ForceFormatted = TRUE, !.Provisioned = TRUE]
                ELSE new1
    IN  IF dev.DeviceType \notin {"disk", "part"}
        THEN [dev |-> dev, err |-> "devtype", calls |-> <<>>]
        ELSE [dev |-> dev1, err |-> "", calls |-> <<"diskinfo">>]

-----------------------------------------------------------------------------
(* OnBlockDeviceChange up to the point where it either returns or has      *)
(* acquired the format semaphore.  The result tells what the invocation    *)
(* did: next ("return" | "format"), the copy it worked on, the new OS,     *)
(* node and tag-cache state, the calls made, whether it re-enqueued the    *)
(* key, whether it writes the copy back, and what it returns otherwise.    *)

\* a handler without the short-circuit for corrupted devices
corruptedSkip_never(device) == FALSE

\* a handler that forgets to skip the devices the scanner marked Inactive
earlyExit_missesInactive(device) ==
    device.life /= "live" \/ device.NodeName /= Self

earlyExit(device) ==
    device.life /= "live" \/ device.NodeName /= Self \/ device.State = "Inactive"

\* a handler that does not wait for the first pass of the scanner
notInitialized_never(init) == FALSE

\* !CacheDiskTags.Initialized()
notInitialized(init) == ~init

corruptedSkip(device) ==
    device.Corrupted /\ ~device.ForceFormatted /\ ~device.Repaired

\* a format decision that looks at ForceFormatted alone
needFormat_ignoresHistory(dev) == dev.ForceFormatted

needFormat(dev) ==
    dev.ForceFormatted /\ (dev.Corrupted \/ dev.LastFormattedAt = NilTime)

\* a tag check that never finds the tags in sync
DiskTagsSynced_never(dev, tags) == FALSE

\* the tag check of an already provisioned device
DiskTagsSynced(dev, tags) == SliceContentCmp(dev.Tags, GetDiskTags(tags, dev.Name))
DiskTagsOnNodeMissed(dev, n, F) ==
    IF ~n.exists \/ "nodeget" \in F THEN TRUE
    ELSE LET nodeTags == IF dev.Name \in DOMAIN n.disks
                         THEN n.disks[dev.Name].Tags ELSE NilSlice
         IN  \E tag \in Elems(dev.Tags) : ~Contains(nodeTags, tag)

Result(next, cpy, o, n, tags, calls, enq, write, ret, err, stage) ==
    [next |-> next, cpy |-> cpy, os |-> o, node |-> n, tags |-> tags,
     calls |-> calls, enq |-> enq, write |-> write, ret |-> ret, err |-> err,
     stage |-> stage]

\* a handler that falls through to the status refresh after the write-back
returnsAfterWriteBack_never(changed) == FALSE

\* the handler returns right after the write-back of a changed copy
returnsAfterWriteBack(changed) == changed

\* a handler that does not record the error of the provision stage
provisionFailed_silent(dev) == dev

\* what OnBlockDeviceChange does with an error of first-time provisioning or
\* of unprovisioning: DiskAddedToNode gets the error and is set false
provisionFailed(dev) ==
    [dev EXCEPT !.DiskAddedToNode =
        SetStatusBool(SetError(dev.DiskAddedToNode, "failed"), FALSE)]

\* the provision / unprovision stage followed by the write-back or, when the
\* copy is unchanged, the status refresh
provisionStage(device, devPath, o, n, tags, F, calls0) ==
    LET needProvision == device.Provisioned
        phase == device.ProvisionPhase
        sync == needProvision /\ phase = "Provisioned"
        synced == DiskTagsSynced(device, tags)
        drift == sync /\ (~synced \/ DiskTagsOnNodeMissed(device, n, F))
        first == needProvision /\ phase = "Unprovisioned"
        stop == ~needProvision /\ phase /= "Unprovisioned"
        p == provisionDeviceToNode(device, n, tags, F)
        u == unprovisionDeviceFromNode(device, n, F)
        fail(dev) == provisionFailed(dev)
        cpy == IF drift THEN p.dev
               ELSE IF first THEN (IF p.err /= "" THEN fail(p.dev) ELSE p.dev)
               ELSE IF stop THEN (IF u.err /= "" THEN fail(u.dev) ELSE u.dev)
               ELSE device
        n1 == IF drift \/ first THEN p.node ELSE IF stop THEN u.node ELSE n
        tags1 == IF drift \/ first THEN p.tags ELSE tags
        stageCalls == IF drift \/ first THEN p.calls
                      ELSE IF stop THEN u.calls
                      ELSE IF sync /\ synced THEN <<"nodeget">>
                      ELSE <<>>
        stageErr == IF drift \/ first THEN p.err ELSE IF stop THEN u.err ELSE ""
        enq == stageErr /= "" \/ "enqueue" \in Range(stageCalls)
        calls == calls0 \o stageCalls
                 \o (IF stageErr /= "" /\ "enqueue" \notin Range(stageCalls)
                     THEN <<"enqueue">> ELSE <<>>)
        \* past the write-back: the calls so far, with the Update if one was made
        calls1 == IF device /= cpy THEN calls \o <<"bdupdate">> ELSE calls
        st == updateDeviceStatus(cpy, devPath, o)
    IN  IF returnsAfterWriteBack(device /= cpy)
        THEN Result("return", cpy, o, n1, tags1, calls, enq, TRUE, "nil", stageErr,
                    "provision")
        ELSE IF st.err /= ""
        THEN Result("return", cpy, o, n1, tags1, calls1 \o st.calls, enq, FALSE,
                    "nil", st.err, "status")
        ELSE Result("return", st.dev, o, n1, tags1, calls1 \o st.calls, enq,
                    device /= st.dev, "nil", "", "status")

\* the mount stage followed by the write-back
mountStage(device, devPath, filesystem, needMountUpdate, o, n, tags, F, calls0) ==
    LET m == updateDeviceMount(device, devPath, filesystem, needMountUpdate, o, F)
        cpy == IF m.err /= ""
               THEN [m.dev EXCEPT !.DeviceMounted =
                        SetStatusBool(SetError(m.dev.DeviceMounted, m.err), FALSE)]
               ELSE m.dev
    IN  Result("return", cpy, m.os, n, tags, calls0 \o m.calls, FALSE,
               device /= cpy, "device", m.err, "mount")

\* a forceFormat that gives up without re-enqueueing when no permit is free
gateMiss_noRequeue(device, o, n, tags, calls0) ==
    Result("return", device, o, n, tags, calls0, FALSE, FALSE, "device", "",
           "gate")

\* forceFormat when no permit is free: the key is re-enqueued and nil is
\* returned, so that the handler returns the device it was given
gateMiss(device, o, n, tags, calls0) ==
    Result("return", device, o, n, tags, calls0 \o <<"enqueue">>, TRUE, FALSE,
           "device", "", "gate")

OnBlockDeviceChange(device, o, n, tags, init, gateFree, F) ==
    LET skip(err, calls, stage) ==
            Result("return", device, o, n, tags, calls, FALSE, FALSE, "nil", err,
                   stage)
        r == resolvePersistentDevPath(device, o, F)
        filesystem == GetFileSystemInfoByDevPath(o)
        calls0 == <<"resolve", "fsinfo">>
        needMountUpdate == needUpdateMountPoint(device, filesystem)
    IN  IF earlyExit(device) THEN skip("", <<>>, "exit")
        ELSE IF corruptedSkip(device) THEN skip("", <<>>, "corrupted")
        ELSE IF notInitialized(init) THEN skip("notinit", <<>>, "notinit")
        ELSE IF r.err /= "" THEN skip(r.err, <<"resolve">>, "resolve")
        ELSE IF r.path = "" THEN skip("nopath", <<"resolve">>, "resolve")
        ELSE IF needFormat(device) THEN
            IF gateFree
            THEN Result("format", device, o, n, tags, calls0, FALSE, FALSE,
                        "device", "", "format")
            ELSE gateMiss(device, o, n, tags, calls0)
        ELSE IF needMountUpdate /= NeedMountUpdateNoOp
        THEN mountStage(device, r.path, filesystem, needMountUpdate, o, n, tags,
                        F, calls0)
        ELSE provisionStage(device, r.path, o, n, tags, F, calls0)

-----------------------------------------------------------------------------
(* Initial state: the scanner has created the resources from what the OS   *)
(* reports; nothing is provisioned, CacheDiskTags is not yet initialized.  *)

NewDevice(name, o, type, nodeName, forceFormatted, provisioned, legacy, tags) ==
    [Name |-> name, life |-> "live", NodeName |-> nodeName, State |-> "Active",
     ForceFormatted |-> forceFormatted, Repaired |-> FALSE,
     Provisioned |-> provisioned, SpecMountPoint |-> legacy, Tags |-> tags,
     DeviceType |-> type, WWN |-> o.wwn, UUID |-> o.fsuuid, PtUUID |-> o.ptuuid,
     PartUUID |-> o.partuuid, StorageController |-> "SATA",
     MountPoint |-> o.mnt, Type |-> o.fstype, IsReadOnly |-> FALSE,
     Corrupted |-> FALSE, LastFormattedAt |-> NilTime, Partitioned |-> o.parts,
     DevPath |-> DevPathOf(name), ProvisionPhase |-> "Unprovisioned",
     DeviceFormatting |-> NoCond, DeviceMounted |-> NoCond,
     DiskAddedToNode |-> NoCond]

OsState(mnt, fstype, fsuuid, ptuuid, parts, wwn, partuuid) ==
    [mnt |-> mnt, fstype |-> fstype, fsuuid |-> fsuuid, ptuuid |-> ptuuid,
     parts |-> parts, wwn |-> wwn, partuuid |-> partuuid]

\* d1: a raw whole disk without WWN that the auto-provision filters match
InitOs1 == OsState("", "", UNKNOWN, "pt1", FALSE, UNKNOWN, "")
InitDev1 == NewDevice("d1", InitOs1, "disk", Self, FALSE, FALSE, "", NilSlice)

\* d2: a partition with the deprecated mount-point override, in one of:
\*   mounted elsewhere with a foreign filesystem, to be formatted and provisioned
\*   ext4, to be provisioned as it is
\*   ext4 but carrying partitions, for each mount plan
\*   a device of another node; an inactive device
InitOs2(mnt, fstype, parts) == OsState(mnt, fstype, "u2", "", parts, "", "pu2")
InitDev2(o, nodeName, state, forceFormatted, provisioned) ==
    [NewDevice("d2", o, "part", nodeName, forceFormatted, provisioned,
               LegacyMount, Slice(<<"ssd">>)) EXCEPT !.State = state]
InitProfiles2 ==
    {InitDev2(InitOs2(ForeignMount, "ntfs", FALSE), Self, "Active", TRUE, TRUE),
     InitDev2(InitOs2("", Ext4, FALSE), Self, "Active", FALSE, TRUE),
     InitDev2(InitOs2("", Ext4, TRUE), Self, "Active", FALSE, TRUE),
     InitDev2(InitOs2(ForeignMount, Ext4, TRUE), Self, "Active", FALSE, TRUE),
     InitDev2(InitOs2(ForeignMount, Ext4, TRUE), Self, "Active", FALSE, FALSE),
     InitDev2(InitOs2("", Ext4, FALSE), OtherNode, "Active", FALSE, TRUE),
     InitDev2(InitOs2("", Ext4, FALSE), Self, "Inactive", FALSE, TRUE)}

\* the OS state a freshly scanned resource was built from
OsOf(dev) ==
    OsState(dev.MountPoint, dev.Type, dev.UUID, dev.PtUUID, dev.Partitioned,
            dev.WWN, dev.PartUUID)

Idle == [pc |-> "idle"]

\* what is remembered of the handler invocation that returned last: the key,
\* the stage it ended in, the resource it was given, the copy it held at the
\* end, whether Update stored the copy, the calls it made in order, the value
\* and error it returned, the error of its stage, the uuid given to mkfs,
\* whether the device was awaiting the user, whether mkfs had succeeded on it
\* before with no corruption recorded since, the children the delete handler
\* listed, the calls that failed, and the node, the tag cache and the OS state of the device before
\* and after
NoLast == [dev |-> "", stage |-> "", in |-> Idle, cpy |-> Idle, wrote |-> FALSE,
           calls |-> <<>>, ret |-> "", err |-> "", stageErr |-> "", uuid |-> "",
           await |-> FALSE, reformat |-> FALSE, children |-> {}, faults |-> {},
           nodeBefore |-> Idle, nodeAfter |-> Idle,
           tagsBefore |-> EmptyMap, tagsAfter |-> EmptyMap,
           osBefore |-> Idle, osAfter |-> Idle]

Init ==
    /\ \E dev2 \in InitProfiles2 :
        /\ bd = [d \in Names |-> IF d = "d1" THEN InitDev1 ELSE dev2]
        /\ os = [d \in Names |-> OsOf(bd[d])]
    /\ node = [exists |-> TRUE, disks |-> EmptyMap, status |-> EmptyMap]
    /\ diskTags = EmptyMap
    /\ initialized = FALSE
    /\ sem = 0
    /\ run = [d \in Names |-> Idle]
    /\ queue = Names
    /\ budget = MaxEvents
    /\ last = NoLast
    /\ awaitUser = {}
    /\ formatted = {}

-----------------------------------------------------------------------------
(* semaphore *)

\* semaphore.acquire: whether a permit is free
canAcquire(held) == held < MaxConcurrentOps
acquire(held) == IF canAcquire(held) THEN held + 1 ELSE held
\* semaphore.release
release(held) == IF held > 0 THEN held - 1 ELSE held
\* a release that is not deferred: it is reached on the success path only
releaseOnExit_onSuccessOnly(held, err) ==
    IF err = "" THEN release(held) ELSE held

\* the deferred release of forceFormat: on every return, whatever the error
releaseOnExit(held, err) == release(held)

-----------------------------------------------------------------------------
(* The end of a handler invocation: the write-back (Blockdevices.Update    *)
(* when the copy differs from the input), the value returned to the        *)
(* dispatcher, and what the work queue does with the key.                  *)

\* Blockdevices.Update succeeds unless the call fails or the stored resource
\* is no longer the version the handler was given
updateOk(d, device, F) == "bdupdate" \notin F /\ bd[d] = device

Return(d, device, cpy, calls, enq, write, ret, err, stage, uuid, F, osBefore) ==
    LET ok == write /\ updateOk(d, device, F)
        err1 == IF write THEN (IF ok THEN "" ELSE "bdupdate") ELSE err
        ret1 == IF write THEN (IF ok THEN "updated" ELSE "nil") ELSE ret
        calls1 == IF write THEN calls \o <<"bdupdate">> ELSE calls
    IN  /\ bd' = IF ok THEN [bd EXCEPT ![d] = cpy] ELSE bd
        /\ queue' = IF enq \/ err1 /= "" \/ ok THEN queue \cup {d}
                    ELSE queue \ {d}
        /\ run' = [run EXCEPT ![d] = Idle]
        /\ awaitUser' = IF stage = "mount" /\ err = "corrupt" /\ ok
                        THEN awaitUser \cup {d} ELSE awaitUser
        /\ formatted' =
                IF ok /\ cpy.Corrupted /\ ~bd[d].Corrupted THEN formatted \ {d}
                ELSE IF stage = "format" /\ "mkfs" \in Range(calls) /\ "mkfs" \notin F
                THEN formatted \cup {d}
                ELSE formatted
        /\ last' = [dev |-> d, stage |-> stage, in |-> device, cpy |-> cpy,
                    wrote |-> ok, calls |-> calls1, ret |-> ret1, err |-> err1,
                    stageErr |-> err, uuid |-> uuid, await |-> d \in awaitUser,
                    reformat |-> d \in formatted,
                    children |-> {}, faults |-> F,
                    nodeBefore |-> node, nodeAfter |-> node',
                    tagsBefore |-> diskTags, tagsAfter |-> diskTags',
                    osBefore |-> osBefore, osAfter |-> os'[d]]

\* a set of faults is drawn within the budget, and each fault is an outcome
\* of a call the invocation makes
Drawn(F, calls) ==
    /\ Cardinality(F) <= budget
    /\ ~({"mount", "corrupt"} \subseteq F)
    /\ \A f \in F : FaultCall(f) \in Range(calls)

-----------------------------------------------------------------------------
(* Change handler *)

\* the calls an invocation with result R makes, the write-back included
callsOf(R) == IF R.write THEN R.calls \o <<"bdupdate">> ELSE R.calls

\* the calls an invocation for key d makes when the calls in F fail
tickCalls(d, F) ==
    UNION {Range(callsOf(R)) :
            R \in {OnBlockDeviceChange(bd[d], os[d], node, diskTags, initialized,
                                       canAcquire(sem), F)}}

\* the fault sets an invocation for key d can meet: F, and F with up to k
\* more failures of calls that are made once those in F have failed
RECURSIVE tickFaults(_, _, _)
tickFaults(d, F, k) ==
    IF k = 0 THEN {F}
    ELSE {F} \cup UNION {tickFaults(d, G, k - 1) :
                            G \in UNION {{F \cup {g} : g \in {f \in Faults \ F :
                                                               FaultCall(f) \in c}} :
                                         c \in {tickCalls(d, F)}}}

\* One invocation of OnBlockDeviceChange for key d, up to its return or, when
\* the device needs formatting and a permit is free, up to the acquire.
Tick(d) ==
    /\ d \in queue
    /\ run[d].pc = "idle"
    /\ \E F \in tickFaults(d, {}, budget) :
        \E R \in {OnBlockDeviceChange(bd[d], os[d], node, diskTags, initialized,
                                     canAcquire(sem), F)} :
            /\ Drawn(F, callsOf(R))
            /\ budget' = budget - Cardinality(F)
            /\ os' = [os EXCEPT ![d] = R.os]
            /\ node' = R.node
            /\ diskTags' = R.tags
            /\ UNCHANGED initialized
            /\ IF R.next = "format"
               THEN /\ sem' = acquire(sem)
                    /\ run' = [run EXCEPT ![d] =
                                [pc |-> IF os[d].mnt /= "" THEN "umount" ELSE "mkfs",
                                 device |-> bd[d], calls |-> R.calls,
                                 os |-> os[d]]]
                    /\ queue' = queue \ {d}
                    /\ UNCHANGED <<bd, last, awaitUser, formatted>>
               ELSE /\ UNCHANGED sem
                    /\ Return(d, bd[d], R.cpy, R.calls, R.enq, R.write, R.ret,
                              R.err, R.stage, "", F, os[d])

\* a handler that does not record the error of forceFormat
formatFailed_silent(dev, err) == dev

\* what OnBlockDeviceChange does with the result of forceFormat
formatFailed(dev, err) ==
    [dev EXCEPT !.DeviceFormatting =
        SetStatusBool(SetError(dev.DeviceFormatting, err), FALSE)]

\* forceFormat, holding a permit: the device is mounted and is unmounted
FormatUmount(d) ==
    /\ run[d].pc = "umount"
    /\ \E F \in SUBSET {"umount", "bdupdate"} :
        /\ Drawn(F, <<"umount", "bdupdate">>)
        /\ "bdupdate" \in F =>
                "umount" \in F /\ run[d].device /= formatFailed(run[d].device, "umount")
        /\ budget' = budget - Cardinality(F)
        /\ UNCHANGED <<node, diskTags, initialized>>
        /\ IF "umount" \in F
           THEN /\ sem' = releaseOnExit(sem, "umount")
                /\ UNCHANGED os
                /\ Return(d, run[d].device, formatFailed(run[d].device, "umount"),
                          run[d].calls \o <<"umount">>, FALSE,
                          run[d].device /= formatFailed(run[d].device, "umount"),
                          "device", "umount", "format", "", F, run[d].os)
           ELSE /\ os' = [os EXCEPT ![d] = Unmounted(os[d])]
                /\ run' = [run EXCEPT ![d].pc = "mkfs",
                                      ![d].calls = @ \o <<"umount">>]
                /\ UNCHANGED <<sem, bd, queue, last, awaitUser, formatted>>

\* forceFormat, holding a permit: mkfs and what follows it, the release of
\* the permit and the return of OnBlockDeviceChange
FormatMkfs(d) ==
    /\ run[d].pc = "mkfs"
    /\ \E F \in SUBSET {"mkfs", "fsnil", "bdupdate"} :
        \E t \in {formatTail(run[d].device, os[d], F)} :
        LET device == run[d].device
            cpy == IF t.err /= "" THEN formatFailed(t.dev, t.err) ELSE t.dev
            write == device /= cpy
            calls == run[d].calls \o t.calls
        IN  /\ Drawn(F, IF write THEN calls \o <<"bdupdate">> ELSE calls)
            /\ budget' = budget - Cardinality(F)
            /\ os' = [os EXCEPT ![d] = t.os]
            /\ sem' = releaseOnExit(sem, t.err)
            /\ UNCHANGED <<node, diskTags, initialized>>
            /\ Return(d, device, cpy, calls, FALSE, write, "device", t.err,
                      "format", t.uuid, F, run[d].os)

-----------------------------------------------------------------------------
(* Delete handler *)

\* the resources labelled with d as parent device on this node
childrenOf(d) ==
    {c \in Names : ParentOf(c) = d /\ bd[c].life /= "gone" /\ bd[c].NodeName = Self}

\* OnBlockDeviceDelete for a resource that is being deleted; the resource is
\* gone once the handler has returned without error
OnBlockDeviceDelete(d) ==
    /\ bd[d].life = "deleting"
    /\ run[d].pc = "idle"
    /\ \E F \in SUBSET {"bddelete", "nodeget", "nodeupdate", "umount"} :
        LET bds == childrenOf(d)
            inNode == {c \in bds : c \in DOMAIN node.disks}
            mounted == {c \in inNode : bd[c].MountPoint /= ""}
            deleted == [c \in Names |->
                          IF c = d THEN [bd[c] EXCEPT !.life = "gone"]
                          ELSE IF c \in bds /\ bd[c].life = "live"
                          THEN [bd[c] EXCEPT !.life = "deleting"]
                          ELSE bd[c]]
            gone == [bd EXCEPT ![d].life = "gone"]
            calls == IF notInitialized(initialized) \/ bds = {} THEN <<>>
                     ELSE IF "bddelete" \in F THEN <<"bddelete">>
                     ELSE IF "nodeget" \in F \/ ~node.exists
                     THEN <<"bddelete", "nodeget">>
                     ELSE <<"bddelete", "nodeget", "nodeupdate">>
                          \o (IF mounted /= {} THEN <<"umount">> ELSE <<>>)
            err == IF notInitialized(initialized) THEN "notinit"
                   ELSE IF bds = {} THEN ""
                   ELSE IF "bddelete" \in F THEN "bddelete"
                   ELSE IF "nodeget" \in F THEN "nodeget"
                   ELSE IF ~node.exists THEN ""
                   ELSE IF "nodeupdate" \in F THEN "nodeupdate"
                   ELSE ""
            done == err = "" /\ bds /= {} /\ node.exists
        IN  /\ Drawn(F, calls)
            /\ budget' = budget - Cardinality(F)
            /\ bd' = IF err = "" THEN deleted
                     ELSE IF "nodeget" \in Range(calls)
                     THEN [deleted EXCEPT ![d] = bd[d]]
                     ELSE bd
            /\ node' = IF done
                       THEN [node EXCEPT !.disks =
                                [c \in (DOMAIN node.disks) \ inNode |->
                                    node.disks[c]]]
                       ELSE node
            /\ os' = IF done /\ "umount" \notin F
                     THEN [c \in Names |->
                            IF c \in mounted THEN Unmounted(os[c]) ELSE os[c]]
                     ELSE os
            /\ diskTags' = IF done THEN DeleteDiskTags(diskTags, d) ELSE diskTags
            /\ queue' = queue \cup {c \in bds : bd'[c] /= bd[c]} \cup {d}
            /\ last' = [dev |-> d, stage |-> "delete", in |-> bd[d],
                        cpy |-> bd[d], wrote |-> FALSE, calls |-> calls,
                        ret |-> IF err \in {"", "notinit"} THEN "nil" ELSE "device",
                        err |-> err, stageErr |-> err, uuid |-> "",
                        await |-> d \in awaitUser, reformat |-> d \in formatted,
                        children |-> bds,
                        faults |-> F,
                        nodeBefore |-> node, nodeAfter |-> node',
                        tagsBefore |-> diskTags, tagsAfter |-> diskTags',
                        osBefore |-> os[d], osAfter |-> os'[d]]
            /\ UNCHANGED <<initialized, sem, run, awaitUser, formatted>>

-----------------------------------------------------------------------------
(* Environment: the scanner, the user, the orchestrator.  Every edit of a  *)
(* resource is a change event for its key.                                 *)

\* the scanner has finished its first pass
ScannerInit ==
    /\ ~initialized
    /\ initialized' = TRUE
    /\ UNCHANGED <<bd, os, node, diskTags, sem, run, queue, budget, last,
                   awaitUser, formatted>>

\* the resources the user and the orchestrator act on; the others keep the
\* spec they were created with
Edited == {"d1"}

TagChoices == {NilSlice, Slice(<<"ssd">>), Slice(<<"fast", "ssd">>)}

Event == budget > 0 /\ budget' = budget - 1

\* the user edits the spec of a resource
UserEdit(d) ==
    /\ Event
    /\ bd[d].life = "live"
    /\ \E ff \in BOOLEAN, rep \in BOOLEAN, prov \in BOOLEAN, tags \in TagChoices :
        LET new == [bd[d] EXCEPT !.ForceFormatted = ff, !.Repaired = rep,
                                 !.Provisioned = prov, !.Tags = tags]
            diff == {x \in {"ff", "rep", "prov", "tags"} :
                        \/ x = "ff" /\ ff /= bd[d].ForceFormatted
                        \/ x = "rep" /\ rep /= bd[d].Repaired
                        \/ x = "prov" /\ prov /= bd[d].Provisioned
                        \/ x = "tags" /\ tags /= bd[d].Tags}
        IN  /\ Cardinality(diff) = 1
            /\ bd' = [bd EXCEPT ![d] = new]
            /\ awaitUser' = IF (ff /\ ~bd[d].ForceFormatted)
                                \/ (rep /\ ~bd[d].Repaired)
                             THEN awaitUser \ {d} ELSE awaitUser
    /\ queue' = queue \cup {d}
    /\ UNCHANGED <<os, node, diskTags, initialized, sem, run, last, formatted>>

\* the user deletes a resource
UserDelete(d) ==
    /\ Event
    /\ bd[d].life = "live"
    /\ bd' = [bd EXCEPT ![d].life = "deleting"]
    /\ queue' = queue \cup {d}
    /\ UNCHANGED <<os, node, diskTags, initialized, sem, run, last, awaitUser, formatted>>

\* the orchestrator (or its operator) tags a disk of the node
OrchTag(d) ==
    /\ Event
    /\ node.exists
    /\ d \in DOMAIN node.disks
    /\ ~Contains(node.disks[d].Tags, "zone-a")
    /\ node' = [node EXCEPT !.disks[d].Tags = Slice(@.e \o <<"zone-a">>)]
    /\ UNCHANGED <<bd, os, diskTags, initialized, sem, run, queue, last,
                   awaitUser, formatted>>

\* the orchestrator reports the replicas scheduled on a disk of the node
OrchReplicas(d) ==
    /\ Event
    /\ node.exists
    /\ d \in DOMAIN node.disks
    /\ \E k \in {0, 1} :
        /\ d \in DOMAIN node.status => node.status[d] /= k
        /\ node' = [node EXCEPT !.status = Put(node.status, d, k)]
    /\ UNCHANGED <<bd, os, diskTags, initialized, sem, run, queue, last,
                   awaitUser, formatted>>

\* the orchestrator node is removed
NodeGone ==
    /\ Event
    /\ node.exists
    /\ node' = [exists |-> FALSE, disks |-> EmptyMap, status |-> EmptyMap]
    /\ UNCHANGED <<bd, os, diskTags, initialized, sem, run, queue, last,
                   awaitUser, formatted>>

-----------------------------------------------------------------------------

Next ==
    \/ \E d \in Names : Tick(d)
    \/ \E d \in Names : FormatUmount(d)
    \/ \E d \in Names : FormatMkfs(d)
    \/ \E d \in Names : OnBlockDeviceDelete(d)
    \/ ScannerInit
    \/ \E d \in Edited : UserEdit(d)
    \/ \E d \in Edited : UserDelete(d)
    \/ \E d \in Edited : OrchTag(d)
    \/ \E d \in Edited : OrchReplicas(d)
    \/ NodeGone

Spec == Init /\ [][Next]_vars

-----------------------------------------------------------------------------
(* The change handler alone: the resources are edited and the orchestrator *)
(* acts, but no resource is deleted and the node stays.                    *)

TicksNext ==
    \/ \E d \in Names : Tick(d)
    \/ \E d \in Names : FormatUmount(d)
    \/ \E d \in Names : FormatMkfs(d)
    \/ ScannerInit
    \/ \E d \in Edited : UserEdit(d)
    \/ \E d \in Edited : OrchTag(d)
    \/ \E d \in Edited : OrchReplicas(d)

TicksSpec == Init /\ [][TicksNext]_vars

-----------------------------------------------------------------------------
(* Two devices that both need formatting contend for the permits, under    *)
(* the scheduling of the work queue: a queued key is eventually handed to  *)
(* the handler, a handler in forceFormat eventually takes its next step,   *)
(* and the scanner eventually finishes its first pass.                     *)

OtherNodeDev2 == InitDev2(InitOs2("", Ext4, FALSE), OtherNode, "Active", FALSE, TRUE)

Start(dev1, dev2, n, tags, keys) ==
    /\ bd = [d \in Names |-> IF d = "d1" THEN dev1 ELSE dev2]
    /\ os = [d \in Names |-> OsOf(bd[d])]
    /\ node = n
    /\ diskTags = tags
    /\ initialized = FALSE
    /\ sem = 0
    /\ run = [d \in Names |-> Idle]
    /\ queue = keys
    /\ budget = MaxEvents
    /\ last = NoLast
    /\ awaitUser = {}
    /\ formatted = {}

NoDisks == [exists |-> TRUE, disks |-> EmptyMap, status |-> EmptyMap]

GateInit ==
    Start([InitDev1 EXCEPT !.ForceFormatted = TRUE],
          InitDev2(InitOs2(ForeignMount, "ntfs", FALSE), Self, "Active", TRUE, TRUE),
          NoDisks, EmptyMap, Names)

GateNext ==
    \/ \E d \in Names : Tick(d)
    \/ \E d \in Names : FormatUmount(d)
    \/ \E d \in Names : FormatMkfs(d)
    \/ ScannerInit

GateSpec ==
    /\ GateInit /\ [][GateNext]_vars
    /\ \A d \in Names : WF_vars(Tick(d))
    /\ \A d \in Names : WF_vars(FormatUmount(d))
    /\ \A d \in Names : WF_vars(FormatMkfs(d))
    /\ WF_vars(ScannerInit)

-----------------------------------------------------------------------------
(* forceFormat on every kind of identity: one device to be formatted whose *)
(* WWN, filesystem UUID and partition-table UUID are each present, empty   *)
(* or "unknown", as far as resolvePersistentDevPath finds the device.      *)

IdChoices(id) == {"", UNKNOWN, id}

FormatInit ==
    \E type \in {"disk", "part"}, wwn \in IdChoices("w1"), uuid \in IdChoices("u1"),
       ptuuid \in IdChoices("pt1"), mnt \in {"", ForeignMount} :
        LET o == OsState(mnt, IF mnt = "" THEN "" ELSE "ntfs", uuid, ptuuid, FALSE,
                         wwn, IF type = "part" THEN "pu1" ELSE "")
            dev == NewDevice("d1", o, type, Self, TRUE, FALSE, "", NilSlice)
            r == resolvePersistentDevPath(dev, o, {})
        IN  /\ r.err = "" /\ r.path /= ""
            /\ Start(dev, OtherNodeDev2, NoDisks, EmptyMap, {"d1"})

FormatNext ==
    \/ Tick("d1")
    \/ FormatUmount("d1")
    \/ FormatMkfs("d1")
    \/ ScannerInit

FormatSpec == FormatInit /\ [][FormatNext]_vars

-----------------------------------------------------------------------------
(* provisionDeviceToNode on every prior state: one formatted and mounted   *)
(* device to be provisioned, with its node entry absent or carrying nil or *)
(* non-nil tags, and CacheDiskTags holding the device or not.              *)

EntryTagChoices ==
    {NilSlice, Slice(<<>>), Slice(<<"zone-a">>), Slice(<<"ssd">>),
     Slice(<<"zone-a", "ssd">>)}
CacheTagChoices ==
    {NilSlice, Slice(<<"ssd">>), Slice(<<"fast", "ssd">>), Slice(<<"zone-a">>)}

ProvisionInit ==
    \E tags \in TagChoices, provisioned \in BOOLEAN,
       found \in BOOLEAN, entryTags \in EntryTagChoices,
       devExist \in BOOLEAN, cacheTags \in CacheTagChoices :
        LET o == OsState(ExtraDisksDir("d1"), Ext4, "u1", "", FALSE, UNKNOWN, "")
            new == NewDevice("d1", o, "disk", Self, FALSE, TRUE, "", tags)
            dev == [new EXCEPT
                      !.LastFormattedAt = Now,
                      !.ProvisionPhase =
                            IF provisioned THEN "Provisioned" ELSE "Unprovisioned",
                      !.DiskAddedToNode =
                            IF provisioned THEN SetStatusBool(NoCond, TRUE)
                            ELSE NoCond]
            n == [NoDisks EXCEPT !.disks =
                    IF found
                    THEN Put(EmptyMap, "d1", DiskSpec(ExtraDisksDir("d1"), entryTags))
                    ELSE EmptyMap]
            c == IF devExist THEN Put(EmptyMap, "d1", cacheTags) ELSE EmptyMap
        IN  /\ ~found => entryTags = NilSlice
            /\ ~devExist => cacheTags = NilSlice
            /\ Start(dev, OtherNodeDev2, n, c, {"d1"})

ProvisionNext ==
    \/ Tick("d1")
    \/ ScannerInit
    \/ UserEdit("d1")
    \/ OrchTag("d1")

ProvisionSpec == ProvisionInit /\ [][ProvisionNext]_vars

-----------------------------------------------------------------------------
(* Properties of the change handler, stated over the record of the          *)
(* invocation that returned last.                                           *)

\* the record is that of a change-handler invocation
Ticked == last.dev /= "" /\ last.stage /= "delete"
Called(c) == c \in Range(last.calls)

\* an input the change handler ignores: nil, being deleted, of another node,
\* or inactive
Ignored(dev) ==
    dev.life /= "live" \/ dev.NodeName /= Self \/ dev.State = "Inactive"

\* C1: an invocation whose input is nil, is being deleted, belongs to another
\* node or is Inactive returns (nil, nil) and makes no external call: nothing
\* is resolved, queried, formatted, mounted, read, written or re-enqueued, and
\* the OS, the node and the tag cache are as they were.
C1_IgnoredInputIsSilent ==
    (Ticked /\ Ignored(last.in)) =>
        /\ last.ret = "nil" /\ last.err = ""
        /\ last.calls = <<>>
        /\ ~last.wrote
        /\ last.nodeAfter = last.nodeBefore
        /\ last.tagsAfter = last.tagsBefore
        /\ last.osAfter = last.osBefore

C1_Witness ==
    Ticked /\ Ignored(last.in) /\ last.in.State = "Inactive" /\ last.ret = "nil"

\* C2: one invocation of the change handler issues at most one Nodes.Update
\* and at most one Blockdevices.Update, on every path and with every failure.
C2_AtMostOneWriteEach ==
    Ticked => /\ Count("nodeupdate", last.calls) <= 1
              /\ Count("bdupdate", last.calls) <= 1

C2_Witness ==
    Ticked /\ Count("nodeupdate", last.calls) = 1
           /\ Count("bdupdate", last.calls) = 1

\* the handlers that hold a permit: between acquire and release in forceFormat
Formatting == {d \in Names : run[d].pc /= "idle"}

\* C3: the permits held are as many as the handlers inside forceFormat, and
\* never more than MaxConcurrentOps: every return of forceFormat gives its
\* permit back and a handler that found no permit gives none back.
C3_PermitsMatchFormatters ==
    /\ sem = Cardinality(Formatting)
    /\ Cardinality(Formatting) <= MaxConcurrentOps

C3_Witness ==
    /\ Formatting /= {}
    /\ sem = MaxConcurrentOps
    /\ last.stage = "gate"
    /\ last.dev \notin Formatting

\* C4: an invocation that finds no free permit does not wait: it runs neither
\* umount nor mkfs, writes nothing and records no formatting error, puts the key
\* back on the queue and returns the device without error; the device is
\* formatted by a later invocation, and so are both of two contending devices.
C4_GateMissRequeuesThenFormats ==
    /\ [](last.stage = "gate" =>
            /\ ~Called("umount") /\ ~Called("mkfs") /\ ~Called("bdupdate")
            /\ Called("enqueue")
            /\ last.cpy = last.in /\ ~last.wrote
            /\ last.osAfter = last.osBefore
            /\ last.ret = "device" /\ last.err = ""
            /\ last.dev \in queue \/ last.dev \in Formatting)
    /\ \A d \in Names :
            (last.stage = "gate" /\ last.dev = d)
                ~> (bd[d].LastFormattedAt /= NilTime)
    /\ <>(\A d \in Names : bd[d].LastFormattedAt /= NilTime)

C4_Witness ==
    /\ last.stage = "gate"
    /\ needFormat(last.in)
    /\ sem = MaxConcurrentOps
    /\ last.dev \in queue

\* C5: a provision update that completes without error leaves on the node an
\* entry for the device whose tags hold every tag of Spec.Tags and every tag
\* the entry had before that CacheDiskTags did not hold for the device.
C5_TagsPreserved ==
    (Ticked /\ Called("tagset")) =>
        LET name == last.dev
            before == IF name \in DOMAIN last.nodeBefore.disks
                      THEN Elems(last.nodeBefore.disks[name].Tags) ELSE {}
            cached == Elems(GetDiskTags(last.tagsBefore, name))
        IN  /\ name \in DOMAIN last.nodeAfter.disks
            /\ Elems(last.in.Tags) \cup (before \ cached)
                    \subseteq Elems(last.nodeAfter.disks[name].Tags)

C5_Witness ==
    /\ Ticked /\ Called("tagset") /\ Called("nodeupdate")
    /\ last.dev \in DOMAIN last.nodeBefore.disks
    /\ last.dev \in DOMAIN last.tagsBefore
    /\ Elems(last.nodeBefore.disks[last.dev].Tags) = {"zone-a", "ssd"}
    /\ Elems(last.tagsBefore[last.dev]) = {"ssd"}
    /\ Elems(last.in.Tags) = {"fast", "ssd"}

\* forceFormat returned without error in the invocation on record
FormatSucceeded ==
    Ticked /\ last.stage = "format" /\ Called("mkfs") /\ last.stageErr = ""

\* C6 (as the code has it): after a successful forceFormat of a device without
\* WWN, Details.UUID is the UUID given to mkfs when one was given; when the
\* empty string was given, Details.UUID is what it was before.
C6_UUIDWrittenBackWhenReused ==
    (FormatSucceeded /\ ~valueExists(last.in.WWN)) =>
        /\ last.uuid /= "" => last.cpy.UUID = last.uuid
        /\ last.uuid = "" => last.cpy.UUID = last.in.UUID
        /\ last.osAfter.fsuuid = IF last.uuid = "" THEN "rnd" ELSE last.uuid

C6_Witness ==
    /\ FormatSucceeded /\ ~valueExists(last.in.WWN)
    /\ last.uuid = ""
    /\ last.in.UUID = UNKNOWN
    /\ last.cpy.UUID = UNKNOWN

\* C6 as stated: after a successful forceFormat of a device without WWN,
\* Details.UUID equals the UUID given to mkfs, the empty string included.
C6_UUIDEqualsPassed ==
    (FormatSucceeded /\ ~valueExists(last.in.WWN)) => last.cpy.UUID = last.uuid

\* C8 as stated: in every stored resource ProvisionPhase = Provisioned implies
\* that DiskAddedToNode is true, and DiskAddedToNode true implies that the node
\* has a disk entry under the device's name.
C8_ProvisionedImpliesAddedImpliesEntry ==
    \A d \in Names :
        /\ bd[d].ProvisionPhase = "Provisioned" => IsTrue(bd[d].DiskAddedToNode)
        /\ IsTrue(bd[d].DiskAddedToNode) => node.exists /\ d \in DOMAIN node.disks

\* the mount of the invocation on record failed on a corrupted filesystem
CorruptMountFailure ==
    Ticked /\ last.stage = "mount" /\ last.stageErr = "corrupt"

\* what an invocation writes back after a mount that failed on corruption
CorruptionRecorded ==
    CorruptMountFailure =>
        /\ last.cpy.Corrupted /\ ~last.cpy.Repaired
        /\ ~IsTrue(last.cpy.DeviceMounted) /\ last.cpy.DeviceMounted.err /= ""

\* C9 (as the code has it): a mount that fails on corruption is written back as
\* Corrupted, not Repaired, DeviceMounted in error; and no invocation runs mkfs
\* or mount on a device given to it as Corrupted with neither ForceFormatted
\* nor Repaired set.
C9_CorruptedHeldWhileUnset ==
    /\ CorruptionRecorded
    /\ (Ticked /\ last.in.Corrupted /\ ~last.in.ForceFormatted
            /\ ~last.in.Repaired) => ~Called("mkfs") /\ ~Called("mount")

C9_Witness ==
    /\ Ticked /\ last.stage = "corrupted"
    /\ last.dev \in awaitUser
    /\ last.in.Corrupted /\ ~last.in.ForceFormatted /\ ~last.in.Repaired
    /\ last.calls = <<>>

\* C9 as stated: after the corruption was written back, no invocation runs
\* mkfs or mount on the device until the user has since set ForceFormatted or
\* Repaired.
C9_HeldUntilUserActsAfterwards ==
    /\ CorruptionRecorded
    /\ (Ticked /\ last.await) => ~Called("mkfs") /\ ~Called("mount")

\* C7: a LastFormattedAt that is set in the stored resource is never nil
\* again, whatever the handlers write back.
C7_LastFormattedAtStays ==
    [][\A d \in Names : bd[d].LastFormattedAt /= NilTime
                            => bd'[d].LastFormattedAt /= NilTime]_vars

C7_Witness ==
    /\ Ticked /\ last.stage = "status" /\ last.wrote
    /\ last.in.LastFormattedAt /= NilTime
    /\ bd[last.dev].LastFormattedAt /= NilTime

\* C10: no invocation mounts a device whose Partitioned is true, nor unmounts
\* it from the mount stage: the mount stage fails with the partition error
\* before any filesystem operation, whatever the mount plan.
C10_PartitionedNeverMounted ==
    (Ticked /\ last.in.Partitioned) =>
        /\ ~Called("mount")
        /\ last.stage /= "format" => ~Called("umount")
        /\ last.stage = "mount" =>
                last.stageErr = "partitioned" /\ last.osAfter = last.osBefore

C10_Witness ==
    /\ Ticked /\ last.in.Partitioned /\ last.stage = "mount"
    /\ needUpdateMountPoint(last.in, GetFileSystemInfoByDevPath(last.osBefore))
            = NeedMountUpdateUnmount + NeedMountUpdateMount


-----------------------------------------------------------------------------
(* The mount stage on every plan: one formatted ext4 disk, provisioning    *)
(* requested or not, with or without the mount-point override, mounted     *)
(* nowhere, at its default or override mount point or somewhere else, with *)
(* or without partitions.                                                  *)

MountPointChoices == {"", ExtraDisksDir("d1"), LegacyMount, ForeignMount}
OverrideChoices == {"", LegacyMount}

\* a formatted ext4 disk as the scanner reports it
FormattedDisk(provisioned, legacy, mnt, parts) ==
    [NewDevice("d1", OsState(mnt, Ext4, "u1", "", parts, UNKNOWN, ""), "disk",
               Self, FALSE, provisioned, legacy, NilSlice)
        EXCEPT !.LastFormattedAt = Now]

MountInit ==
    \E provisioned \in BOOLEAN, legacy \in OverrideChoices,
       mnt \in MountPointChoices, parts \in BOOLEAN :
        Start(FormattedDisk(provisioned, legacy, mnt, parts), OtherNodeDev2,
              NoDisks, EmptyMap, {"d1"})

MountNext ==
    \/ Tick("d1")
    \/ ScannerInit
    \/ UserEdit("d1")

MountSpec == MountInit /\ [][MountNext]_vars

\* the observation after the plan for (dev, fs) has been carried out on o
AfterPlan(dev, fs, o) ==
    LET plan == needUpdateMountPoint(dev, fs)
    IN  IF fs.isNil THEN fs
        ELSE IF plan = NeedMountUpdateNoOp THEN fs
        ELSE GetFileSystemInfoByDevPath(
                updateDeviceMount(dev, DevPathOf(dev.Name), fs, plan, o, {}).os)

\* the plan the specification gives for (dev, fs)
PlanByTable(dev, fs) ==
    IF fs.isNil THEN NeedMountUpdateNoOp
    ELSE IF dev.Provisioned /\ fs.MountPoint = "" THEN NeedMountUpdateMount
    ELSE IF dev.Provisioned /\ fs.MountPoint = extraDiskMountPoint(dev)
         THEN NeedMountUpdateNoOp
    ELSE IF dev.Provisioned THEN NeedMountUpdateUnmount + NeedMountUpdateMount
    ELSE IF fs.MountPoint /= "" THEN NeedMountUpdateUnmount
    ELSE NeedMountUpdateNoOp

\* C11: needUpdateMountPoint gives NoOp for an absent observation and
\* otherwise Mount, NoOp, Unmount+Mount or Unmount by the Provisioned flag and
\* the observed mount point; planning again on what is observed once the plan
\* has been carried out gives NoOp, for every input and in every invocation
\* whose mount stage succeeded.
C11_PlanRoundTripIsNoOp ==
    /\ \A provisioned \in BOOLEAN, legacy \in OverrideChoices,
          mnt \in MountPointChoices, absent \in BOOLEAN :
            LET dev == FormattedDisk(provisioned, legacy, mnt, FALSE)
                o == OsOf(dev)
                fs == IF absent THEN NilFileSystem
                      ELSE GetFileSystemInfoByDevPath(o)
            IN  /\ needUpdateMountPoint(dev, fs) = PlanByTable(dev, fs)
                /\ needUpdateMountPoint(dev, AfterPlan(dev, fs, o))
                        = NeedMountUpdateNoOp
    /\ (Ticked /\ last.stage = "mount" /\ last.stageErr = "") =>
            needUpdateMountPoint(last.in, GetFileSystemInfoByDevPath(last.osAfter))
                = NeedMountUpdateNoOp

C11_Witness ==
    /\ Ticked /\ last.stage = "mount" /\ last.stageErr = ""
    /\ last.in.SpecMountPoint = LegacyMount
    /\ needUpdateMountPoint(last.in, GetFileSystemInfoByDevPath(last.osBefore))
            = NeedMountUpdateUnmount + NeedMountUpdateMount
    /\ last.osAfter.mnt = LegacyMount


\* the device is provisioned as requested, mounted where it is expected and
\* not to be formatted, and its tags are those of CacheDiskTags and are all
\* on its node entry
ProvisionedAndSynced(dev, o, n, tags) ==
    /\ ~Ignored(dev)
    /\ dev.Provisioned /\ dev.ProvisionPhase = "Provisioned"
    /\ o.mnt = extraDiskMountPoint(dev)
    /\ ~needFormat(dev)
    /\ SliceContentCmp(dev.Tags, GetDiskTags(tags, dev.Name))
    /\ n.exists
    /\ \A tag \in Elems(dev.Tags) :
            dev.Name \in DOMAIN n.disks /\ Contains(n.disks[dev.Name].Tags, tag)

\* the OS reports nothing that the resource does not hold already
NothingNewObserved(dev, o) ==
    updateDeviceStatus(dev, DevPathOf(dev.Name), o).dev = dev

\* C12: an invocation that gets to work on a device that is provisioned and
\* tag-synced, with the OS reporting nothing new, writes neither the node nor
\* the resource, returns (nil, nil) and leaves the node, the tag cache, the
\* OS and the resource as they were, so that the next invocation finds the
\* same and does the same.
C12_ProvisionedSyncedTickWritesNothing ==
    (/\ Ticked /\ Called("fsinfo")
     /\ ProvisionedAndSynced(last.in, last.osBefore, last.nodeBefore,
                             last.tagsBefore)
     /\ NothingNewObserved(last.in, last.osBefore)) =>
        /\ ~Called("nodeupdate") /\ ~Called("bdupdate")
        /\ ~Called("mount") /\ ~Called("umount") /\ ~Called("mkfs")
        /\ last.ret = "nil" /\ last.err = ""
        /\ last.cpy = last.in /\ ~last.wrote
        /\ last.nodeAfter = last.nodeBefore
        /\ last.tagsAfter = last.tagsBefore
        /\ last.osAfter = last.osBefore

C12_Witness ==
    /\ Ticked /\ Called("fsinfo") /\ Called("nodeget") /\ Called("diskinfo")
    /\ ProvisionedAndSynced(last.in, last.osBefore, last.nodeBefore,
                            last.tagsBefore)
    /\ NothingNewObserved(last.in, last.osBefore)
    /\ Elems(last.in.Tags) = {"ssd"}
    /\ Elems(last.nodeBefore.disks[last.dev].Tags) = {"zone-a", "ssd"}
    /\ bd[last.dev] = last.in


\* an invocation on record that ran while CacheDiskTags was not initialized
\* (initialized never becomes false again)
RanUninitialized == last.dev /= "" /\ ~initialized

\* the invocation on record did nothing: no format, mount, node or resource
\* write or delete, no write of the tag cache
DidNothing ==
    /\ last.calls = <<>> /\ ~last.wrote /\ last.cpy = last.in
    /\ last.nodeAfter = last.nodeBefore
    /\ last.tagsAfter = last.tagsBefore
    /\ last.osAfter = last.osBefore

\* C13 (as the code has it): while CacheDiskTags is not initialized no
\* invocation does anything; every delete event fails with the error
\* "CacheDiskTags is not initialized", and so does every change event except
\* those the change handler drops before it looks at the cache - a device that
\* is nil, being deleted, of another node or Inactive, or Corrupted with
\* neither ForceFormatted nor Repaired set - which return (nil, nil); a
\* failed event stays queued.
C13_NothingProcessedUntilInitialized ==
    RanUninitialized =>
        /\ DidNothing
        /\ last.stage = "delete" => last.err = "notinit"
        /\ Ticked =>
            IF Ignored(last.in) \/ corruptedSkip(last.in)
            THEN last.ret = "nil" /\ last.err = ""
            ELSE last.ret = "nil" /\ last.err = "notinit" /\ last.dev \in queue

C13_Witness ==
    /\ RanUninitialized /\ Ticked
    /\ ~Ignored(last.in)
    /\ last.err = "notinit"
    /\ last.dev \in queue

\* C13 as stated: while CacheDiskTags is not initialized every change event
\* and every delete event fails with the error "CacheDiskTags is not
\* initialized" and does nothing.
C13_EveryEventFailsUntilInitialized ==
    RanUninitialized => DidNothing /\ last.err = "notinit"


-----------------------------------------------------------------------------
(* unprovisionDeviceFromNode on every prior state: one disk that was        *)
(* provisioned with its tags and whose provisioning the user has withdrawn, *)
(* still mounted or not, before or after the eviction was requested, with  *)
(* the orchestrator reporting no status for the disk, no scheduled replica *)
(* or one; under the scheduling of the work queue, which hands a queued    *)
(* key to the handler eventually.                                          *)

\* Spec.Tags of the disk: a user may pick any tag, DiskRemoveTag included
RemovalTagChoices == {Slice(<<"ssd">>), Slice(<<DiskRemoveTag>>)}

\* len(Status.DiskStatus[name].ScheduledReplica), or no record for the name
NoRecord == 0 - 1
ReplicaChoices == {NoRecord, 0, 1}

UnprovisionInit ==
    \E tags \in RemovalTagChoices, evicting \in BOOLEAN,
       mnt \in {"", ExtraDisksDir("d1")}, replicas \in ReplicaChoices :
        LET base == [FormattedDisk(TRUE, "", mnt, FALSE) EXCEPT !.Tags = tags]
            p == provisionDeviceToNode(base, NoDisks, EmptyMap, {})
            withdrawn == [p.dev EXCEPT !.Provisioned = FALSE]
            u == unprovisionDeviceFromNode(withdrawn, p.node, {})
            dev == IF evicting THEN u.dev ELSE withdrawn
            n == [(IF evicting THEN u.node ELSE p.node) EXCEPT
                    !.status = IF replicas = NoRecord THEN EmptyMap
                               ELSE Put(EmptyMap, "d1", replicas)]
        IN  /\ evicting => mnt = ""
            /\ Start(dev, OtherNodeDev2, n, p.tags, {"d1"})

UnprovisionNext ==
    \/ Tick("d1")
    \/ ScannerInit
    \/ UserEdit("d1")
    \/ OrchReplicas("d1")
    \/ NodeGone

UnprovisionSpec ==
    /\ UnprovisionInit /\ [][UnprovisionNext]_vars
    /\ WF_vars(Tick("d1"))
    /\ WF_vars(ScannerInit)

\* the invocation on record ran unprovisionDeviceFromNode
UnprovisionRan ==
    /\ Ticked /\ Called("nodeget")
    /\ ~last.in.Provisioned /\ last.in.ProvisionPhase /= "Unprovisioned"

\* the invocation on record removed the device's entry from Spec.Disks
EntryRemoved ==
    /\ UnprovisionRan
    /\ last.dev \in DOMAIN last.nodeBefore.disks
    /\ last.nodeAfter.exists
    /\ last.dev \notin DOMAIN last.nodeAfter.disks

\* the scheduled replicas the node reported for the device to the invocation
\* on record
ReplicasBefore ==
    IF last.dev \in DOMAIN last.nodeBefore.status
    THEN last.nodeBefore.status[last.dev] ELSE NoRecord

\* C14 as stated: the change handler removes an entry from Spec.Disks only
\* when an earlier node write has put it in eviction (AllowScheduling false,
\* EvictionRequested true, DiskRemoveTag appended) and no replica is scheduled
\* on it; while replicas remain on an entry that carries DiskRemoveTag the
\* invocation only re-enqueues.
C14_EntryRemovedOnlyAfterEviction ==
    /\ EntryRemoved =>
        LET entry == last.nodeBefore.disks[last.dev]
        IN  /\ Contains(entry.Tags, DiskRemoveTag)
            /\ ~entry.AllowScheduling /\ entry.EvictionRequested
            /\ ReplicasBefore = 0
    /\ (/\ UnprovisionRan /\ last.stageErr = ""
        /\ last.dev \in DOMAIN last.nodeBefore.disks
        /\ Contains(last.nodeBefore.disks[last.dev].Tags, DiskRemoveTag)
        /\ ReplicasBefore > 0) =>
            /\ ~Called("nodeupdate") /\ Called("enqueue")
            /\ last.nodeAfter = last.nodeBefore


-----------------------------------------------------------------------------
(* Auto-provisioning of a fresh disk when nothing fails: one raw, unmounted *)
(* disk that the auto-provision filters match, identified by WWN,           *)
(* filesystem UUID or partition-table UUID, under the scheduling of the    *)
(* work queue; no external call fails and nobody edits the resource.       *)

AutoInit ==
    \E wwn \in IdChoices("w1"), uuid \in IdChoices("u1"),
       ptuuid \in IdChoices("pt1"), tags \in TagChoices :
        LET o == OsState("", "", uuid, ptuuid, FALSE, wwn, "")
            dev == NewDevice("d1", o, "disk", Self, FALSE, FALSE, "", tags)
            r == resolvePersistentDevPath(dev, o, {})
        IN  /\ r.err = "" /\ r.path /= ""
            /\ bd = [d \in Names |-> IF d = "d1" THEN dev ELSE OtherNodeDev2]
            /\ os = [d \in Names |-> OsOf(bd[d])]
            /\ node = NoDisks
            /\ diskTags = EmptyMap
            /\ initialized = FALSE
            /\ sem = 0
            /\ run = [d \in Names |-> Idle]
            /\ queue = {"d1"}
            /\ budget = 0
            /\ last = NoLast
            /\ awaitUser = {}
            /\ formatted = {}

AutoNext ==
    \/ Tick("d1")
    \/ FormatMkfs("d1")
    \/ ScannerInit

AutoSpec ==
    /\ AutoInit /\ [][AutoNext]_vars
    /\ WF_vars(Tick("d1"))
    /\ WF_vars(FormatMkfs("d1"))
    /\ WF_vars(ScannerInit)

\* the device is provisioned: phase Provisioned, DiskAddedToNode true, and on
\* the node under its name with the default path
ProvisionedOnNode(d) ==
    /\ bd[d].ProvisionPhase = "Provisioned"
    /\ IsTrue(bd[d].DiskAddedToNode)
    /\ node.exists /\ d \in DOMAIN node.disks
    /\ node.disks[d].Path = ExtraDisksDir(d)

\* C15: a fresh, unformatted, unmounted disk that the scanner wants
\* auto-provisioned is, when nothing fails, eventually and from then on
\* provisioned on the node with the path /var/lib/harvester/extra-disks/<name>;
\* the stages come in order: the format runs on a resource whose
\* ForceFormatted and Provisioned the status refresh has set, the mount on a
\* formatted device, the provisioning on a formatted device mounted at that
\* path, and mkfs never runs on a device that is already on the node.
C15_FreshDiskGetsProvisioned ==
    /\ <>[]ProvisionedOnNode("d1")
    /\ [](Ticked =>
            /\ last.stage = "format" =>
                    /\ last.in.ForceFormatted /\ last.in.Provisioned
                    /\ last.in.LastFormattedAt = NilTime
                    /\ last.osBefore.mnt = ""
                    /\ last.dev \notin DOMAIN last.nodeBefore.disks
            /\ last.stage = "mount" =>
                    /\ last.in.LastFormattedAt /= NilTime
                    /\ last.osBefore.mnt = ""
                    /\ last.osAfter.mnt = ExtraDisksDir(last.dev)
                    /\ last.dev \notin DOMAIN last.nodeBefore.disks
            /\ last.stage = "provision" =>
                    /\ last.in.LastFormattedAt /= NilTime
                    /\ last.osBefore.mnt = ExtraDisksDir(last.dev)
                    /\ last.dev \notin DOMAIN last.nodeBefore.disks
                    /\ last.dev \in DOMAIN last.nodeAfter.disks
            /\ last.stage = "status" /\ last.in.LastFormattedAt = NilTime =>
                    /\ ~last.in.ForceFormatted /\ ~last.in.Provisioned
                    /\ last.cpy.ForceFormatted /\ last.cpy.Provisioned)

C15_Witness ==
    /\ ProvisionedOnNode("d1")
    /\ bd["d1"].ForceFormatted /\ bd["d1"].Provisioned
    /\ bd["d1"].LastFormattedAt /= NilTime
    /\ os["d1"].mnt = ExtraDisksDir("d1") /\ os["d1"].fstype = Ext4
    /\ Ticked /\ last.stage = "status" /\ ~last.wrote /\ last.ret = "nil"
    /\ "d1" \notin queue


\* C16 as stated: when OnBlockDeviceDelete returns without error for a device
\* with children on this node, every child is deleted, the node has no entry
\* under a child's name and CacheDiskTags has no entry under the name of the
\* deleted device; without children the handler does nothing.
C16_DeleteCleansUp ==
    (last.stage = "delete" /\ last.err = "") =>
        IF last.children /= {}
        THEN /\ \A c \in last.children :
                    /\ bd[c].life /= "live"
                    /\ c \notin DOMAIN last.nodeAfter.disks
             /\ last.dev \notin DOMAIN last.tagsAfter
        ELSE /\ last.calls = <<>>
             /\ last.nodeAfter = last.nodeBefore
             /\ last.tagsAfter = last.tagsBefore
             /\ last.osAfter = last.osBefore


\* the format precondition on the resource given to the invocation on record
FormatDue ==
    /\ last.in.ForceFormatted
    /\ last.in.Corrupted \/ last.in.LastFormattedAt = NilTime

\* C17: an invocation runs mkfs only if the resource it was given has
\* ForceFormatted set and is Corrupted or was never formatted; an invocation
\* given such a resource ends with the format stage (or before it): it does
\* not mount, does not read or write the node, does not touch the tag cache
\* and does not refresh the status.
C17_MkfsOnlyWhenForced ==
    Ticked =>
        /\ Called("mkfs") => FormatDue
        /\ FormatDue =>
            /\ last.stage \in {"exit", "notinit", "resolve", "gate", "format"}
            /\ ~Called("mount") /\ ~Called("nodeget") /\ ~Called("nodeupdate")
            /\ ~Called("tagset") /\ ~Called("diskinfo")
            /\ last.nodeAfter = last.nodeBefore
            /\ last.tagsAfter = last.tagsBefore

C17_Witness ==
    /\ Ticked /\ last.stage = "format" /\ Called("mkfs")
    /\ last.in.ForceFormatted /\ last.in.Corrupted
    /\ last.in.LastFormattedAt /= NilTime
    /\ ~last.cpy.Corrupted


\* mkfs failed in the invocation on record
MkfsFailed == Ticked /\ last.stage = "format" /\ last.stageErr = "mkfs"

\* the copy of the invocation on record holds the failure in DeviceFormatting
FailureRecorded ==
    ~IsTrue(last.cpy.DeviceFormatting) /\ last.cpy.DeviceFormatting.err = "mkfs"

NodeNotFound ==
    UnprovisionRan /\ ~last.nodeBefore.exists /\ ~Called("enqueue")

\* C19 as stated: when unprovision runs and the orchestrator node is not
\* found, the phase of the device is set to Unprovisioned and the handler
\* returns without error and without a node write.
C19_NodeNotFoundMeansUnprovisioned ==
    NodeNotFound =>
        /\ last.cpy.ProvisionPhase = "Unprovisioned"
        /\ last.err = ""
        /\ ~Called("nodeupdate")


\* unprovisionDeviceFromNode ran in the invocation on record, no call failed,
\* and it found the entry of the device carrying DiskRemoveTag
FoundEvicting ==
    /\ UnprovisionRan /\ last.faults = {}
    /\ last.nodeBefore.exists
    /\ last.dev \in DOMAIN last.nodeBefore.disks
    /\ Contains(last.nodeBefore.disks[last.dev].Tags, DiskRemoveTag)

\* the invocation on record removed the entry with one node write and set the
\* phase Unprovisioned
RemovedWithOneWrite ==
    /\ EntryRemoved
    /\ Count("nodeupdate", last.calls) = 1
    /\ last.nodeAfter.disks = Del(last.nodeBefore.disks, last.dev)
    /\ last.cpy.ProvisionPhase = "Unprovisioned"
    /\ ~IsTrue(last.cpy.DiskAddedToNode)

\* the device waits in phase Unprovisioning for its eviction to finish: its
\* key is queued and the handler, once the cache is initialized, gets as far
\* as unprovisionDeviceFromNode; the node reports a status for it that lists
\* no replica
DrainedUnprovisioning(d) ==
    /\ ~bd[d].Provisioned
    /\ bd[d].ProvisionPhase = "Unprovisioning"
    /\ node.exists /\ d \in DOMAIN node.disks
    /\ d \in DOMAIN node.status /\ node.status[d] = 0
    /\ d \in queue
    /\ \E R \in {OnBlockDeviceChange(bd[d], os[d], node, diskTags, TRUE,
                                    canAcquire(sem), {})} :
            "nodeget" \in Range(R.calls)

-----------------------------------------------------------------------------
(* The provision update and its outcome *)

\* provisionDeviceToNode ran in the invocation on record and returned nil
ProvisionCompleted == Ticked /\ Called("tagset")

\* C21: a provision update that returns without error and that wrote the
\* node, or found DiskAddedToNode not yet true, leaves the device in phase
\* Provisioned with DiskAddedToNode true and without error; every provision
\* update that returns without error has set the CacheDiskTags entry of the
\* device to its Spec.Tags.
C21_ProvisionUpdateMarksProvisioned ==
    ProvisionCompleted =>
        /\ (Called("nodeupdate") \/ ~IsTrue(last.in.DiskAddedToNode)) =>
                /\ last.cpy.ProvisionPhase = "Provisioned"
                /\ IsTrue(last.cpy.DiskAddedToNode)
                /\ last.cpy.DiskAddedToNode.err = ""
        /\ DevExist(last.tagsAfter, last.dev)
        /\ GetDiskTags(last.tagsAfter, last.dev) = last.in.Tags

\* a first-time provision update that wrote the node and marked the device
C21_Witness ==
    /\ ProvisionCompleted /\ Called("nodeupdate")
    /\ last.in.ProvisionPhase = "Unprovisioned"
    /\ ~IsTrue(last.in.DiskAddedToNode)
    /\ last.cpy.ProvisionPhase = "Provisioned"
    /\ GetDiskTags(last.tagsAfter, last.dev) = last.in.Tags


\* provisionDeviceToNode ran in the invocation on record and got the node
ProvisionRan ==
    /\ Ticked /\ last.in.Provisioned
    /\ Called("tagset") \/ Called("nodeupdate")

\* the node held, for the device, an entry equal to the DiskSpec that the
\* provision update intended to write
EntryUpToDate ==
    /\ last.dev \in DOMAIN last.nodeBefore.disks
    /\ last.nodeBefore.disks[last.dev]
            = newDiskSpec(last.in, last.nodeBefore, last.tagsBefore)

\* the provision update once more, on what the invocation on record left
ProvisionAgain ==
    provisionDeviceToNode(last.in, last.nodeAfter, last.tagsAfter, {})

\* C22 as stated: a provision update that finds on the node an entry equal to
\* the intended one, nil or empty tags included, issues no node write; and a
\* provision update that wrote the node writes nothing when it is run once
\* more with nothing changed in between.
C22_EqualEntryIsNotRewritten ==
    /\ (ProvisionRan /\ EntryUpToDate) => ~Called("nodeupdate")
    /\ (ProvisionCompleted /\ Called("nodeupdate")) =>
            "nodeupdate" \notin Range(ProvisionAgain.calls)


\* first-time provisioning ran in the invocation on record and failed: the
\* node could not be loaded, or the node write failed
FirstProvisionFailed ==
    /\ Ticked /\ last.stage \in {"provision", "status"}
    /\ last.in.Provisioned /\ last.in.ProvisionPhase = "Unprovisioned"
    /\ \/ ~last.nodeBefore.exists
       \/ "nodeget" \in last.faults
       \/ "nodeupdate" \in last.faults

\* C23: when first-time provisioning fails because the node cannot be loaded
\* or the node write fails, the invocation leaves the phase Unprovisioned and
\* the node and CacheDiskTags as they were, holds a copy whose DiskAddedToNode
\* is false and carries the error, hands that copy to Blockdevices.Update if
\* it differs from the resource it was given, and re-enqueues the key.
C23_FailedFirstProvisionIsRecorded ==
    FirstProvisionFailed =>
        /\ last.cpy.ProvisionPhase = "Unprovisioned"
        /\ last.tagsAfter = last.tagsBefore
        /\ last.nodeAfter = last.nodeBefore
        /\ last.cpy.DiskAddedToNode.status = "False"
        /\ last.cpy.DiskAddedToNode.err /= ""
        /\ (last.cpy /= last.in) => Called("bdupdate")
        /\ Called("enqueue")

\* a failed node write of a first-time provisioning, recorded in the stored
\* resource
C23_Witness ==
    /\ FirstProvisionFailed /\ "nodeupdate" \in last.faults
    /\ last.wrote
    /\ bd[last.dev].DiskAddedToNode.err /= ""
    /\ bd[last.dev].ProvisionPhase = "Unprovisioned"
    /\ last.dev \notin DOMAIN last.tagsAfter


-----------------------------------------------------------------------------
(* Provisioning requested again: the disks of UnprovisionInit, with a       *)
(* dispatcher that hands every key to the change handler again and again.  *)

\* the dispatcher queues the key of a resource once more
Resync(d) ==
    /\ d \notin queue
    /\ bd[d].life = "live"
    /\ run[d].pc = "idle"
    /\ queue' = queue \cup {d}
    /\ UNCHANGED <<bd, os, node, diskTags, initialized, sem, run, budget, last,
                   awaitUser, formatted>>

ReprovisionNext ==
    \/ Tick("d1")
    \/ ScannerInit
    \/ UserEdit("d1")
    \/ OrchReplicas("d1")
    \/ Resync("d1")

ReprovisionSpec ==
    /\ UnprovisionInit /\ [][ReprovisionNext]_vars
    /\ WF_vars(Tick("d1"))
    /\ WF_vars(ScannerInit)
    /\ WF_vars(Resync("d1"))

\* provisioning of an active, uncorrupted device is requested, the node is
\* there, no handler is at work on the device, and from here on nothing
\* fails and nobody edits anything
ProvisionRequested(d) ==
    /\ ~Ignored(bd[d]) /\ ~bd[d].Corrupted
    /\ bd[d].Provisioned
    /\ node.exists
    /\ run[d].pc = "idle"
    /\ budget = 0

\* the device is in phase Provisioned and its node entry can be scheduled on
Schedulable(d) ==
    /\ bd[d].ProvisionPhase = "Provisioned"
    /\ node.exists /\ d \in DOMAIN node.disks
    /\ node.disks[d].AllowScheduling
    /\ ~node.disks[d].EvictionRequested

\* C24 as stated: once provisioning of an active, uncorrupted device is
\* requested and stays requested and every call succeeds, repeated
\* invocations bring the device to phase Provisioned with a node entry that
\* allows scheduling and requests no eviction, also when the request comes
\* while the phase is Unprovisioning.
C24_RequestedProvisioningIsReached ==
    ProvisionRequested("d1") ~> Schedulable("d1")


-----------------------------------------------------------------------------
(* Formatting once *)

\* C25 as stated: an invocation runs mkfs on a device on which mkfs has
\* succeeded before only if the stored Corrupted of the device has become
\* true since, also when the refresh after the earlier mkfs or the write-back
\* of the earlier invocation failed.
C25_NoSecondMkfs ==
    (Ticked /\ Called("mkfs")) => ~last.reformat


-----------------------------------------------------------------------------
(* Frame of the node writes and of the tag cache *)

\* maps a and b agree on every key outside keys
SameOutside(a, b, keys) ==
    /\ (DOMAIN a) \ keys = (DOMAIN b) \ keys
    /\ \A c \in (DOMAIN a) \ keys : a[c] = b[c]

\* the node after the invocation on record is the node before it, but for
\* the Spec.Disks entries of the names in keys
NodeFrame(keys) ==
    /\ last.nodeAfter.exists = last.nodeBefore.exists
    /\ last.nodeAfter.status = last.nodeBefore.status
    /\ SameOutside(last.nodeBefore.disks, last.nodeAfter.disks, keys)

\* C26: an invocation of the change handler for device d leaves the node as
\* it read it but for Spec.Disks[d], whatever it wrote (provision update,
\* start of unprovision, final removal), and CacheDiskTags as it was but for
\* the entry of d; an invocation of the delete handler for d removes from
\* Spec.Disks only entries of children of d, changes no entry, and leaves
\* CacheDiskTags as it was but for the entry of d.
C26_WritesTouchOwnEntryOnly ==
    /\ Ticked =>
        /\ NodeFrame({last.dev})
        /\ SameOutside(last.tagsBefore, last.tagsAfter, {last.dev})
    /\ (last.dev /= "" /\ last.stage = "delete") =>
        /\ NodeFrame(last.children)
        /\ DOMAIN last.nodeAfter.disks \subseteq DOMAIN last.nodeBefore.disks
        /\ \A c \in DOMAIN last.nodeAfter.disks :
                last.nodeAfter.disks[c] = last.nodeBefore.disks[c]
        /\ SameOutside(last.tagsBefore, last.tagsAfter, {last.dev})

\* a provision update for one device that wrote the node while the node and
\* CacheDiskTags held an entry of the other device
C26_Witness ==
    /\ Ticked /\ Called("nodeupdate") /\ Called("tagset")
    /\ last.nodeAfter /= last.nodeBefore
    /\ \E c \in Names \ {last.dev} :
        /\ c \in DOMAIN last.nodeBefore.disks
        /\ c \in DOMAIN last.nodeAfter.disks
        /\ c \in DOMAIN last.tagsBefore

=============================================================================
